---- MODULE Spec2Model ----
(***************************************************************************)
(* Model of the pcap stream codec of io.go: Writer (NewWriter, Write),     *)
(* Reader (NewReader, Next, read, readUint32/readInt32/readUint16), the    *)
(* byte-order helpers asUint32/asUint16 and the Reader's DataPool.         *)
(*                                                                         *)
(* Representation.  A byte is a number in 0..255.  A uint32 is kept as its *)
(* four base-256 digits, most significant first (a "word"), and a uint16   *)
(* as its two digits, so that 0xa1b2c3d4 is <<161, 178, 195, 212>>: the    *)
(* model checker's integers stop at 2^31-1 and the magic numbers do not    *)
(* fit.  Val turns a word below 2^31 into the number it denotes where the  *)
(* code uses it as a length or a time.  A pointer that may be nil is a     *)
(* sequence of length 0 or 1.                                              *)
(*                                                                         *)
(* The Writer's sink and the Reader's stream are one in-memory buffer      *)
(* (a bytes.Buffer): sink is everything the sink has accepted, rpos is how *)
(* much of it the Reader has consumed.  The scratch slices (Writer.buf,    *)
(* Reader.fourBytes/twoBytes/sixteenBytes) are written before they are     *)
(* read in every call and carry nothing between calls; they are not state. *)
(***************************************************************************)
EXTENDS Integers, Sequences, FiniteSets, TLC

VARIABLES
    sink,    \* bytes accepted by the io.Writer so far; also the Reader's stream
    faults,  \* number of short writes the sink has produced
    writer,  \* "none": NewWriter not called; "open": *Writer; "nil": NewWriter returned nil, err
    hdr,     \* <<>> or <<h>>: the *FileHeader passed to NewWriter
    wcall,   \* the last Writer call: its name, the sink length before it, its packet, its error
    wrote,   \* the packets for which Writer.Write returned nil, in order
    nerr,    \* "none": NewReader not called; otherwise the error it returned
    r,       \* the Reader's fields flip, err, Header, Count (zero values until constructed)
    rpos,    \* bytes of the stream consumed by the Reader
    call,    \* the last Reader call: its name, rpos and bytes available before it, its result
    got,     \* the packets returned by Next, in order
    pool,    \* the PacketData objects held by DataPool
    held,    \* the PacketData objects handed out by Next and not released
    nalloc,  \* number of PacketData objects allocated by NewPacketData
    tpc,     \* per goroutine using DataPool directly: its position
    treg,    \* per goroutine: the value of r.Count it loaded in r.Count++
    tbuf     \* per goroutine: the PacketData it holds (0: none)

vars == <<sink, faults, writer, hdr, wcall, wrote, nerr, r, rpos, call, got,
          pool, held, nalloc, tpc, treg, tbuf>>

codecVars == <<sink, faults, writer, hdr, wcall, wrote, nerr, r, rpos, call, got, held>>
threadVars == <<tpc, treg, tbuf>>

----------------------------------------------------------------------------
(* Bounds of the model *)

MaxPackets == 2
MaxFaults == 1
ChunkMax == 8
MaxAllocs == 3
NThreads == 3

(* Sizes fixed by the code *)

FileHeaderLen == 24
RecordHeaderLen == 16
NanosPerSec == 1000000000

----------------------------------------------------------------------------
(* Numbers *)

Min(a, b) == IF a < b THEN a ELSE b

Reverse(s) == [i \in 1..Len(s) |-> s[Len(s) + 1 - i]]

Take(s, n) == SubSeq(s, 1, n)

IsPrefix(s, t) == Len(s) <= Len(t) /\ Take(t, Len(s)) = s

\* the word (uint32) of a number 0 <= n < 2^31
U32(n) == <<n \div 16777216, (n \div 65536) % 256, (n \div 256) % 256, n % 256>>

\* the number a word below 2^31 denotes
Val(wd) == ((wd[1] * 256 + wd[2]) * 256 + wd[3]) * 256 + wd[4]

U16(n) == <<n \div 256, n % 256>>

Zero32 == <<0, 0, 0, 0>>

Zero16 == <<0, 0>>

\* uint32(x) of an int32 x (two's complement)
Uint32OfInt32(x) ==
    IF x >= 0 THEN U32(x)
    ELSE LET y == (x + 2147483647) + 1
             wd == U32(y)
         IN  <<wd[1] + 128, wd[2], wd[3], wd[4]>>

\* int32(w) of a uint32 w (two's complement)
Int32OfUint32(wd) ==
    IF wd[1] < 128 THEN Val(wd)
    ELSE (Val(<<wd[1] - 128, wd[2], wd[3], wd[4]>>) - 2147483647) - 1

----------------------------------------------------------------------------
(* Byte order helpers *)

asUint32(data, flip) == IF flip THEN data ELSE Reverse(data)

asUint16(data, flip) == IF flip THEN data ELSE Reverse(data)

\* binary.LittleEndian.PutUint32 / PutUint16: the bytes of a word, least significant first
PutUint32(wd) == Reverse(wd)

PutUint16(wd) == Reverse(wd)

----------------------------------------------------------------------------
(* The values the callers pass in *)

MagicMicro == <<161, 178, 195, 212>>          \* 0xa1b2c3d4

MagicNano == <<161, 178, 60, 77>>             \* 0xa1b23c4d

MagicMicroSwapped == <<212, 195, 178, 161>>   \* 0xd4c3b2a1

MagicNanoSwapped == <<77, 60, 178, 161>>      \* 0x4d3cb2a1

MagicPcapng == <<10, 13, 13, 10>>             \* 0x0a0d0d0a, not a pcap magic

Accepted == {MagicMicro, MagicNano, MagicMicroSwapped, MagicNanoSwapped}

Magics == Accepted \cup {MagicPcapng}

\* the snapshot lengths of the headers: no payload, and a payload of one byte
SnapLens == {0, 1}

Headers ==
    { [MagicNumber |-> m, VersionMajor |-> U16(2), VersionMinor |-> U16(4),
       TimeZone |-> -2, SigFigs |-> U32(5), SnapLen |-> U32(s), LinkType |-> U32(1)]
      : m \in Magics, s \in SnapLens }

ZeroHeader ==
    [MagicNumber |-> Zero32, VersionMajor |-> Zero16, VersionMinor |-> Zero16,
     TimeZone |-> 0, SigFigs |-> Zero32, SnapLen |-> Zero32, LinkType |-> Zero32]

\* the packet handed to the i-th call of Writer.Write (i from 0): SnapLen-byte
\* payloads, two packets in turn
PacketAt(i, size) ==
    IF i % 2 = 0
    THEN [Time |-> [sec |-> 1, nsec |-> 7], Caplen |-> U32(size), Len |-> U32(size),
          Data |-> [j \in 1..size |-> 1]]
    ELSE [Time |-> [sec |-> 2, nsec |-> 0], Caplen |-> U32(size), Len |-> U32(size + 3),
          Data |-> [j \in 1..size |-> 2]]

\* the lengths at which the sink cuts a write of n bytes short
ShortLens(n) == 0..(n - 1)

----------------------------------------------------------------------------
(* Writer *)

\* io.Writer.Write(p) on a sink that accepts k bytes: n < len(p) comes with an error
SinkWrite(p, k) == [n |-> k, err |-> IF k < Len(p) THEN "ErrShortWrite" ELSE "nil"]

EncodeHeader(h) ==
    PutUint32(h.MagicNumber) \o PutUint16(h.VersionMajor) \o PutUint16(h.VersionMinor)
    \o PutUint32(Uint32OfInt32(h.TimeZone)) \o PutUint32(h.SigFigs)
    \o PutUint32(h.SnapLen) \o PutUint32(h.LinkType)

EncodeRecordHeader(pkt) ==
    PutUint32(U32(pkt.Time.sec)) \o PutUint32(U32(pkt.Time.nsec))
    \o PutUint32(pkt.Caplen) \o PutUint32(pkt.Len)

\* NewWriter(writer, header) on a sink that accepts k of the 24 bytes
NewWriterResult(header, k) ==
    LET buf == EncodeHeader(header)
        res == SinkWrite(buf, k)
    IN  [out |-> Take(buf, res.n),
         w |-> IF res.err # "nil" THEN "nil" ELSE "open",
         err |-> res.err]

\* Write that goes on to the payload after a failed header write
WriteResultNoEarlyReturn(pkt, k1, k2) ==
    LET buf == EncodeRecordHeader(pkt)
        h == SinkWrite(buf, k1)
        d == SinkWrite(pkt.Data, k2)
    IN  [out |-> Take(buf, h.n) \o Take(pkt.Data, d.n), err |-> d.err]

\* Writer.Write(pkt) on a sink that accepts k1 of the 16 header bytes and, if
\* the payload is written at all, k2 of its bytes
WriteResult(pkt, k1, k2) ==
    LET buf == EncodeRecordHeader(pkt)
        h == SinkWrite(buf, k1)
    IN  IF h.err # "nil"
        THEN [out |-> Take(buf, h.n), err |-> h.err]
        ELSE LET d == SinkWrite(pkt.Data, k2)
             IN  [out |-> buf \o Take(pkt.Data, d.n), err |-> d.err]

NewWriter ==
    /\ writer = "none"
    /\ \E header \in Headers :
       \E k \in ShortLens(FileHeaderLen) \cup {FileHeaderLen} :
          /\ k < FileHeaderLen => faults < MaxFaults
          /\ LET res == NewWriterResult(header, k)
             IN  /\ sink' = sink \o res.out
                 /\ writer' = res.w
                 /\ hdr' = <<header>>
                 /\ wcall' = [op |-> "NewWriter", start |-> Len(sink), pkt |-> <<>>,
                              err |-> res.err]
                 /\ faults' = IF res.err # "nil" THEN faults + 1 ELSE faults
    /\ UNCHANGED <<wrote, nerr, r, rpos, call, got, pool, held, nalloc, threadVars>>

Write ==
    /\ writer = "open"
    /\ Len(wrote) + faults < MaxPackets
    /\ \E pkt \in {PacketAt(Len(wrote) + faults, Val(hdr[1].SnapLen))} :
       \E k1 \in ShortLens(RecordHeaderLen) \cup {RecordHeaderLen} :
       \E k2 \in ShortLens(Len(pkt.Data)) \cup {Len(pkt.Data)} :
          /\ k1 < RecordHeaderLen => faults < MaxFaults /\ k2 = Len(pkt.Data)
          /\ k2 < Len(pkt.Data) => faults < MaxFaults
          /\ LET res == WriteResult(pkt, k1, k2)
             IN  /\ sink' = sink \o res.out
                 /\ wcall' = [op |-> "Write", start |-> Len(sink), pkt |-> <<pkt>>,
                              err |-> res.err]
                 /\ wrote' = IF res.err = "nil" THEN Append(wrote, pkt) ELSE wrote
                 /\ faults' = IF res.err # "nil" THEN faults + 1 ELSE faults
    /\ UNCHANGED <<writer, hdr, nerr, r, rpos, call, got, pool, held, nalloc, threadVars>>

----------------------------------------------------------------------------
(* Reader *)

\* io.Reader.Read(p) with len(p) = want on an in-memory stream holding avail
\* unread bytes, which hands out at most ChunkMax bytes per call
Read(avail, want) ==
    IF want = 0 THEN [n |-> 0, err |-> "nil"]
    ELSE IF avail = 0 THEN [n |-> 0, err |-> "EOF"]
    ELSE [n |-> Min(Min(avail, want), ChunkMax), err |-> "nil"]

RECURSIVE readLoop(_, _, _, _)
readLoop(n, err, avail, want) ==
    IF err = "nil" /\ n # want
    THEN LET c == Read(avail - n, want - n)
         IN  readLoop(n + c.n, c.err, avail, want)
    ELSE [n |-> n, err |-> IF want = n THEN "nil" ELSE err]

\* read as a variant that reports every short read as io.ErrUnexpectedEOF
readShortIsUnexpected(avail, want) ==
    LET first == Read(avail, want)
        res == readLoop(first.n, first.err, avail, want)
    IN  [n |-> res.n, err |-> IF res.err = "nil" THEN "nil" ELSE "ErrUnexpectedEOF"]

\* read as io.ReadFull: io.EOF only when no byte was read, io.ErrUnexpectedEOF after some
readLikeReadFull(avail, want) ==
    LET first == Read(avail, want)
        res == readLoop(first.n, first.err, avail, want)
    IN  [n |-> res.n,
         err |-> IF res.err = "nil" THEN "nil"
                 ELSE IF res.n = 0 THEN res.err ELSE "ErrUnexpectedEOF"]

\* Reader.read(data) with len(data) = want: the bytes consumed and the error returned
read(avail, want) ==
    LET first == Read(avail, want)
    IN  readLoop(first.n, first.err, avail, want)

readUint32(stream, pos, flip) ==
    LET res == read(Len(stream) - pos, 4)
    IN  [val |-> IF res.err # "nil" THEN Zero32
                 ELSE asUint32(SubSeq(stream, pos + 1, pos + 4), flip),
         err |-> res.err, pos |-> pos + res.n]

readInt32(stream, pos, flip) ==
    LET res == read(Len(stream) - pos, 4)
    IN  [val |-> IF res.err # "nil" THEN 0
                 ELSE Int32OfUint32(asUint32(SubSeq(stream, pos + 1, pos + 4), flip)),
         err |-> res.err, pos |-> pos + res.n]

readUint16(stream, pos, flip) ==
    LET res == read(Len(stream) - pos, 2)
    IN  [val |-> IF res.err # "nil" THEN Zero16
                 ELSE asUint16(SubSeq(stream, pos + 1, pos + 2), flip),
         err |-> res.err, pos |-> pos + res.n]

\* the switch without the nanosecond magic numbers
MagicCaseMicroOnly(magic) ==
    IF magic = MagicMicro THEN "native"
    ELSE IF magic = MagicMicroSwapped THEN "swapped"
    ELSE "bad"

\* the switch on the magic number in NewReader
MagicCase(magic) ==
    IF magic \in {MagicMicro, MagicNano} THEN "native"
    ELSE IF magic \in {MagicMicroSwapped, MagicNanoSwapped} THEN "swapped"
    ELSE "bad"

ZeroReader == [flip |-> FALSE, err |-> "nil", Header |-> ZeroHeader, Count |-> 0]

\* NewReader(reader) on a stream: the Reader, the error returned and the bytes consumed
NewReaderResult(stream) ==
    LET m == readUint32(stream, 0, FALSE)
        kind == MagicCase(m.val)
    IN  IF kind = "bad"
        THEN [r |-> ZeroReader, err |-> "badmagic", pos |-> m.pos]
        ELSE LET flip == (kind = "swapped")
                 vmaj == readUint16(stream, m.pos, flip)
                 vmin == readUint16(stream, vmaj.pos, flip)
                 tz == readInt32(stream, vmin.pos, flip)
                 sf == readUint32(stream, tz.pos, flip)
                 sl == readUint32(stream, sf.pos, flip)
                 lt == readUint32(stream, sl.pos, flip)
             IN  [r |-> [flip |-> flip, err |-> lt.err,
                         Header |-> [MagicNumber |-> MagicNano,
                                     VersionMajor |-> vmaj.val, VersionMinor |-> vmin.val,
                                     TimeZone |-> tz.val, SigFigs |-> sf.val,
                                     SnapLen |-> sl.val, LinkType |-> lt.val],
                         Count |-> 0],
                  err |-> "nil", pos |-> lt.pos]

NewReader ==
    /\ nerr = "none"
    /\ LET res == NewReaderResult(sink)
       IN  /\ r' = res.r
           /\ nerr' = res.err
           /\ rpos' = res.pos
           /\ call' = [op |-> "NewReader", pos |-> 0, avail |-> Len(sink), ret |-> <<>>]
    /\ UNCHANGED <<sink, faults, writer, hdr, wcall, wrote, got, pool, held, nalloc,
                   threadVars>>

\* time.Unix(sec, nsec): nsec outside [0, 1e9) is carried into the seconds
Unix(secW, nsecW) ==
    [sec |-> Val(secW) + Val(nsecW) \div NanosPerSec, nsec |-> Val(nsecW) % NanosPerSec]

\* Get whose New allocates without counting
PoolGetNoCount(pl, count, na) ==
    { [buf |-> b, pool |-> pl \ {b}, Count |-> count, nalloc |-> na] : b \in pl }
    \cup { [buf |-> na + 1, pool |-> pl, Count |-> count, nalloc |-> na + 1] }

\* DataPool.Get(): some pooled PacketData, or DataPool.New().  sync.Pool promises
\* no relation between what was Put and what Get returns: Get may find nothing
\* although something was Put (the object sits in another P's private slot, or a
\* garbage collection dropped it) and then calls New, as it does when the pool
\* is empty.  pool is what was Put and not handed out since; an object Get
\* misses stays in it.
PoolGet(pl, count, na) ==
    { [buf |-> b, pool |-> pl \ {b}, Count |-> count, nalloc |-> na] : b \in pl }
    \cup { [buf |-> na + 1, pool |-> pl, Count |-> count + 1, nalloc |-> na + 1] }

\* the *Packet built from the 16 header bytes d and the filled buffer
MakePacket(d, flip, data, buf) ==
    [Time |-> Unix(asUint32(SubSeq(d, 1, 4), flip), asUint32(SubSeq(d, 5, 8), flip)),
     Caplen |-> asUint32(SubSeq(d, 9, 12), flip),
     Len |-> asUint32(SubSeq(d, 13, 16), flip),
     Data |-> data,
     PacketData |-> buf]

Next ==
    /\ nerr = "nil"
    /\ LET avail == Len(sink) - rpos
           h == read(avail, RecordHeaderLen)
       IN  IF h.err # "nil"
           THEN /\ r' = [r EXCEPT !.err = h.err]
                /\ rpos' = rpos + h.n
                /\ call' = [op |-> "Next", pos |-> rpos, avail |-> avail, ret |-> <<>>]
                /\ UNCHANGED <<got, pool, held, nalloc>>
           ELSE LET d == SubSeq(sink, rpos + 1, rpos + RecordHeaderLen)
                    size == Val(r.Header.SnapLen)
                    p == read(avail - RecordHeaderLen, size)
                IN  \E g \in PoolGet(pool, r.Count, nalloc) :
                       /\ r' = [r EXCEPT !.err = p.err, !.Count = g.Count]
                       /\ rpos' = rpos + RecordHeaderLen + p.n
                       /\ pool' = g.pool
                       /\ nalloc' = g.nalloc
                       /\ IF p.err # "nil"
                          THEN /\ call' = [op |-> "Next", pos |-> rpos, avail |-> avail,
                                           ret |-> <<>>]
                               /\ UNCHANGED <<got, held>>
                          ELSE LET data == SubSeq(sink, rpos + RecordHeaderLen + 1,
                                                  rpos + RecordHeaderLen + size)
                                   pkt == MakePacket(d, r.flip, data, g.buf)
                               IN  /\ call' = [op |-> "Next", pos |-> rpos,
                                               avail |-> avail, ret |-> <<pkt>>]
                                   /\ got' = Append(got, pkt)
                                   /\ held' = held \cup {g.buf}
    /\ UNCHANGED <<sink, faults, writer, hdr, wcall, wrote, nerr, threadVars>>

\* the caller returns a packet's buffer: pkt.Pool.Put(pkt.PacketData)
Release ==
    /\ \E b \in held :
          /\ pool' = pool \cup {b}
          /\ held' = held \ {b}
    /\ UNCHANGED <<sink, faults, writer, hdr, wcall, wrote, nerr, r, rpos, call, got,
                   nalloc, threadVars>>

----------------------------------------------------------------------------
(* The codec driven by one goroutine *)

Threads == 1..NThreads

Init ==
    /\ sink = <<>>
    /\ faults = 0
    /\ writer = "none"
    /\ hdr = <<>>
    /\ wcall = [op |-> "none", start |-> 0, pkt |-> <<>>, err |-> "nil"]
    /\ wrote = <<>>
    /\ nerr = "none"
    /\ r = ZeroReader
    /\ rpos = 0
    /\ call = [op |-> "none", pos |-> 0, avail |-> 0, ret |-> <<>>]
    /\ got = <<>>
    /\ pool = {}
    /\ held = {}
    /\ nalloc = 0
    /\ tpc = [t \in Threads |-> "idle"]
    /\ treg = [t \in Threads |-> 0]
    /\ tbuf = [t \in Threads |-> 0]

Step == NewWriter \/ Write \/ NewReader \/ Next \/ Release

Spec == Init /\ [][Step]_vars

----------------------------------------------------------------------------
(* DataPool used by several goroutines: r.DataPool.Get() and r.DataPool.Put() *)
(* called directly, on a Reader constructed from a well-formed header.  The   *)
(* pool's own operations are atomic (sync.Pool); DataPool.New runs in the     *)
(* calling goroutine outside any lock, so r.Count++ is a load and a store.    *)

PoolHeader ==
    [MagicNumber |-> MagicNano, VersionMajor |-> U16(2), VersionMinor |-> U16(4),
     TimeZone |-> -2, SigFigs |-> U32(5), SnapLen |-> U32(1), LinkType |-> U32(1)]

InitPool ==
    /\ sink = EncodeHeader(PoolHeader)
    /\ faults = 0
    /\ writer = "open"
    /\ hdr = <<PoolHeader>>
    /\ wcall = [op |-> "NewWriter", start |-> 0, pkt |-> <<>>, err |-> "nil"]
    /\ wrote = <<>>
    /\ nerr = NewReaderResult(EncodeHeader(PoolHeader)).err
    /\ r = NewReaderResult(EncodeHeader(PoolHeader)).r
    /\ rpos = NewReaderResult(EncodeHeader(PoolHeader)).pos
    /\ call = [op |-> "NewReader", pos |-> 0, avail |-> FileHeaderLen, ret |-> <<>>]
    /\ got = <<>>
    /\ pool = {}
    /\ held = {}
    /\ nalloc = 0
    /\ tpc = [t \in Threads |-> "idle"]
    /\ treg = [t \in Threads |-> 0]
    /\ tbuf = [t \in Threads |-> 0]

InNew == {t \in Threads : tpc[t] \in {"load", "store"}}

\* Get finds a pooled object
GetHit(t) ==
    /\ tpc[t] = "idle"
    /\ pool # {}
    /\ \E b \in pool :
          /\ pool' = pool \ {b}
          /\ tbuf' = [tbuf EXCEPT ![t] = b]
    /\ tpc' = [tpc EXCEPT ![t] = "has"]
    /\ UNCHANGED <<codecVars, nalloc, treg>>

\* Get finds nothing (the pool is empty, or it misses what was Put) and calls New
GetMiss(t) ==
    /\ tpc[t] = "idle"
    /\ nalloc + Cardinality(InNew) < MaxAllocs
    /\ tpc' = [tpc EXCEPT ![t] = "load"]
    /\ UNCHANGED <<codecVars, pool, nalloc, treg, tbuf>>

\* New: r.Count++, the load
NewLoad(t) ==
    /\ tpc[t] = "load"
    /\ treg' = [treg EXCEPT ![t] = r.Count]
    /\ tpc' = [tpc EXCEPT ![t] = "store"]
    /\ UNCHANGED <<codecVars, pool, nalloc, tbuf>>

\* New: r.Count++, the store, and return NewPacketData(...)
NewStore(t) ==
    /\ tpc[t] = "store"
    /\ r' = [r EXCEPT !.Count = treg[t] + 1]
    /\ nalloc' = nalloc + 1
    /\ tbuf' = [tbuf EXCEPT ![t] = nalloc + 1]
    /\ tpc' = [tpc EXCEPT ![t] = "has"]
    /\ UNCHANGED <<sink, faults, writer, hdr, wcall, wrote, nerr, rpos, call, got, held,
                   pool, treg>>

PoolPut(t) ==
    /\ tpc[t] = "has"
    /\ pool' = pool \cup {tbuf[t]}
    /\ tbuf' = [tbuf EXCEPT ![t] = 0]
    /\ tpc' = [tpc EXCEPT ![t] = "idle"]
    /\ UNCHANGED <<codecVars, nalloc, treg>>

StepPool ==
    \E t \in Threads : GetHit(t) \/ GetMiss(t) \/ NewLoad(t) \/ NewStore(t) \/ PoolPut(t)

SpecPool == InitPool /\ [][StepPool]_vars

----------------------------------------------------------------------------
(* Properties *)

\* the magic number of the stream: its first four bytes, as NewReader decodes them
StreamMagic == asUint32(Take(sink, 4), FALSE)

IsNewReaderStep == nerr = "none" /\ nerr' # "none"

\* the (timestamp, Caplen, Len, Data) tuple of a packet
Tuple(pkt) == <<pkt.Time, pkt.Caplen, pkt.Len, pkt.Data>>

\* C1: with an accepted MagicNumber and a sink that never fails, what NewReader
\* and Next read back from the bytes NewWriter and Write produced is the written
\* header, field for field, and the written packets' (timestamp, Caplen, Len,
\* Data) tuples in order.
C1_RoundTrip ==
    (faults = 0 /\ nerr = "nil" /\ writer = "open" /\ hdr[1].MagicNumber \in Accepted)
    => /\ r.Header = hdr[1]
       /\ Len(got) <= Len(wrote)
       /\ \A i \in 1..Len(got) : Tuple(got[i]) = Tuple(wrote[i])

\* C2: on a stream of at least 24 bytes NewReader succeeds exactly when the
\* first four bytes decode to an accepted magic number, with native byte order
\* (flip false) for 0xa1b2c3d4 and 0xa1b23c4d and swapped byte order (flip true)
\* for 0xd4c3b2a1 and 0x4d3cb2a1; otherwise it returns the bad-magic error and
\* no Reader; and no later call changes flip.
C2_MagicDecidesByteOrder ==
    [][ /\ (IsNewReaderStep /\ Len(sink) >= FileHeaderLen)
           => /\ StreamMagic \in {MagicMicro, MagicNano}
                    => (nerr' = "nil" /\ r'.flip = FALSE)
              /\ StreamMagic \in {MagicMicroSwapped, MagicNanoSwapped}
                    => (nerr' = "nil" /\ r'.flip = TRUE)
              /\ StreamMagic \notin Accepted
                    => (nerr' = "badmagic" /\ r' = ZeroReader)
        /\ nerr = "nil" => (nerr' = "nil" /\ r'.flip = r.flip) ]_vars

\* C2 witness: a Reader built from a swapped magic number has returned a packet.
C2_Witness ==
    /\ nerr = "nil" /\ r.flip
    /\ StreamMagic = MagicNanoSwapped
    /\ call.op = "Next" /\ call.ret # <<>>

\* C3: NewReader returns a non-nil error for every stream shorter than 24 bytes.
C3_ShortHeaderFails ==
    [][ (IsNewReaderStep /\ Len(sink) < FileHeaderLen) => nerr' # "nil" ]_vars

\* the last call was a Next that found no byte left, with every earlier byte
\* consumed by the file header and by complete records
CleanEnd ==
    /\ nerr = "nil"
    /\ call.op = "Next"
    /\ call.avail = 0
    /\ call.pos = FileHeaderLen + Len(got) * (RecordHeaderLen + Val(r.Header.SnapLen))

\* C4 as stated: a Next at a clean end of stream returns no packet and leaves
\* the Reader without an error.
C4_CleanEndNoError == CleanEnd => (call.ret = <<>> /\ r.err = "nil")

\* C4 as amended: a Next at a clean end of stream returns no packet, consumes
\* nothing, and leaves io.EOF in the Reader's err.
C4_CleanEndIsEOF == CleanEnd => (call.ret = <<>> /\ r.err = "EOF" /\ rpos = call.pos)

\* C4 witness: the clean end came after a record had been returned.
C4_Witness == CleanEnd /\ Len(got) >= 1

\* the last call was a Next that found 1 to 15 bytes of a record header
MidHeader ==
    /\ nerr = "nil"
    /\ call.op = "Next"
    /\ call.avail \in 1..(RecordHeaderLen - 1)

\* C5 as stated: a Next that finds 1 to 15 header bytes ends differently from a
\* Next at a clean end of stream (no packet, io.EOF in err).
C5_TruncatedHeaderDistinct == MidHeader => ~(call.ret = <<>> /\ r.err = "EOF")

\* C5 as amended: a Next that finds 1 to 15 header bytes consumes them, returns
\* no packet and leaves io.EOF in err: the outcome of a clean end of stream.
C5_TruncatedHeaderIsEOF ==
    MidHeader => (call.ret = <<>> /\ r.err = "EOF" /\ rpos = call.pos + call.avail)

\* C5 witness: Next found 10 of the 16 header bytes.
C5_Witness == MidHeader /\ call.avail = 10

\* C6: once a Next has failed inside a record (some bytes were there, not
\* enough), every later Next returns no packet and the error is still retained.
C6_ErrorIsSticky ==
    [][ (nerr = "nil" /\ call.op = "Next" /\ call.ret = <<>> /\ call.avail > 0
         /\ r.err # "nil" /\ call'.op = "Next")
        => (call'.ret = <<>> /\ r'.err = r.err) ]_vars

\* C7 as stated: a Next that acquires a buffer while the pool holds one takes
\* it from the pool, returns it in the packet and leaves Count unchanged; Count
\* changes only by one, and only in a Next that acquires a buffer from an empty
\* pool.
C7_BufferReuse ==
    [][ nerr = "nil" =>
          LET acquired == rpos' >= rpos + RecordHeaderLen
          IN  /\ (acquired /\ pool # {})
                    => /\ r'.Count = r.Count
                       /\ \E b \in pool :
                             /\ pool' = pool \ {b}
                             /\ call'.ret # <<>> => call'.ret[1].PacketData = b
              /\ (acquired /\ pool = {}) => r'.Count = r.Count + 1
              /\ r'.Count # r.Count
                    => (r'.Count = r.Count + 1 /\ acquired /\ pool = {}) ]_vars

\* C7 as amended: a Next that acquires a buffer either takes one from the pool,
\* returns it in the packet and leaves Count unchanged, or allocates a buffer
\* never handed out before and raises Count by exactly one; from an empty pool
\* it always allocates; Count changes in no other step, and stays the number of
\* buffers allocated.
C7_ReuseOrCountedAllocation ==
    [][ nerr = "nil" =>
          LET acquired == rpos' >= rpos + RecordHeaderLen
              reused == /\ r'.Count = r.Count
                        /\ nalloc' = nalloc
                        /\ \E b \in pool :
                              /\ pool' = pool \ {b}
                              /\ call'.ret # <<>> => call'.ret[1].PacketData = b
              allocated == /\ r'.Count = r.Count + 1
                           /\ nalloc' = nalloc + 1
                           /\ pool' = pool
                           /\ call'.ret # <<>> => call'.ret[1].PacketData = nalloc'
          IN  /\ acquired => (reused \/ allocated)
              /\ (acquired /\ pool = {}) => allocated
              /\ r'.Count # r.Count => (acquired /\ allocated)
              /\ r'.Count = nalloc' ]_vars

\* C7 witness: two packets were returned in the same buffer with one allocation.
C7_Witness ==
    /\ Len(got) >= 2
    /\ got[1].PacketData = got[2].PacketData
    /\ r.Count = 1

Resolution(magic) ==
    IF magic \in {MagicMicro, MagicMicroSwapped} THEN "micro" ELSE "nano"

\* seconds plus a fraction counted in the given resolution, as a time
TimeAt(sec, frac, res) ==
    IF res = "micro"
    THEN [sec |-> sec + frac \div 1000000, nsec |-> (frac % 1000000) * 1000]
    ELSE [sec |-> sec + frac \div NanosPerSec, nsec |-> frac % NanosPerSec]

\* C8: the timestamp of a returned packet is its seconds field plus its fraction
\* field in the resolution of the stream's magic number (microseconds for
\* 0xa1b2c3d4 and 0xd4c3b2a1, nanoseconds for the other two), and the magic
\* number the Reader keeps in Header has that resolution.
C8_TimestampResolution ==
    (nerr = "nil" /\ call.op = "Next" /\ call.ret # <<>>)
    => LET d == SubSeq(sink, call.pos + 1, call.pos + RecordHeaderLen)
           sec == Val(asUint32(SubSeq(d, 1, 4), r.flip))
           frac == Val(asUint32(SubSeq(d, 5, 8), r.flip))
       IN  /\ call.ret[1].Time = TimeAt(sec, frac, Resolution(StreamMagic))
           /\ Resolution(r.Header.MagicNumber) = Resolution(StreamMagic)

\* the bytes the last Writer call set out to write
Intended ==
    IF wcall.op = "NewWriter" THEN EncodeHeader(hdr[1])
    ELSE EncodeRecordHeader(wcall.pkt[1]) \o wcall.pkt[1].Data

\* the bytes the last Writer call put into the sink
Written == SubSeq(sink, wcall.start + 1, Len(sink))

C9_Post ==
    wcall.op # "none"
    => /\ IsPrefix(Written, Intended)
       /\ wcall.err = "nil" <=> Written = Intended
       /\ wcall.op = "NewWriter" => (writer = "nil" <=> wcall.err # "nil")
       /\ (wcall.op = "Write" /\ Len(Written) < RecordHeaderLen) => wcall.err # "nil"

\* C9: a Writer call puts a prefix of its bytes into the sink and returns nil
\* exactly when it put all of them there: NewWriter returns an error (and no
\* Writer) when the header write is short, Write returns an error when the
\* record header write is short, writing no payload byte after it, and when the
\* payload write is short; bytes in the sink are never taken back.
C9_WriteFailureIsFatal == []C9_Post /\ [][IsPrefix(sink, sink')]_vars

\* C9 witness: a Write whose record header write stopped after 10 bytes.
C9_Witness ==
    /\ wcall.op = "Write" /\ wcall.err # "nil"
    /\ Len(Written) = 10

\* C10: whenever no goroutine is inside DataPool.New, Count is the number of
\* buffers New has allocated.
C10_CountIsAllocations == InNew = {} => r.Count = nalloc

====
